---- MODULE Spec2Model ----
(***************************************************************************)
(* Model of the CuraQ MCP server's CallTool handler (src/src/index.ts).    *)
(* One invocation is: the synchronous part of the handler up to its fetch  *)
(* (or an early return), the backend's outcome, and the rest of the        *)
(* handler up to the returned result.  Display sentences, which are        *)
(* Japanese in the source, are named by ASCII keys in the field msg.       *)
(***************************************************************************)
EXTENDS Integers, Sequences, FiniteSets, TLC

\* Invocations the transport may hold at once (slots of in-flight requests).
MaxInFlight == 2
\* Longest article array a backend body carries in the model.
MaxArticles == 2

Slots == 1..MaxInFlight

(***************************************************************************)
(* JavaScript values, as far as the handler's expressions need them.       *)
(***************************************************************************)
Undefined == [t |-> "undefined"]
Null == [t |-> "null"]
NaN == [t |-> "NaN"]
None == [t |-> "none"]
Num(n) == [t |-> "number", v |-> n]
Str(s) == [t |-> "string", v |-> s]
Obj(fields) == [t |-> "object", f |-> fields]
Arr(items) == [t |-> "array", items |-> items]
Bool(b) == [t |-> "boolean", v |-> b]

\* ToBoolean: what `!x`, `x || d` and `c ? a : b` test.
Truthy(x) ==
  CASE x.t = "number" -> x.v # 0
    [] x.t = "string" -> x.v # ""
    [] x.t = "boolean" -> x.v
    [] x.t = "object" -> TRUE
    [] x.t = "array" -> TRUE
    [] OTHER -> FALSE

\* x || d
Or(x, d) == IF Truthy(x) THEN x ELSE d

\* Decimal literals among the strings of the model.
NumericLiteral == [s \in {"7", "999"} |-> IF s = "7" THEN 7 ELSE 999]

\* ToNumber, applied by Math.min to each argument.
ToNumber(x) ==
  CASE x.t = "number" -> x
    [] x.t = "string" -> IF x.v \in DOMAIN NumericLiteral THEN Num(NumericLiteral[x.v])
                         ELSE IF x.v = "" THEN Num(0) ELSE NaN
    [] x.t = "boolean" -> IF x.v THEN Num(1) ELSE Num(0)
    [] x.t = "null" -> Num(0)
    [] OTHER -> NaN

\* Math.min(a, b): NaN if either argument converts to NaN.
MathMin(a, b) ==
  LET x == ToNumber(a)
      y == ToNumber(b)
  IN IF x.t = "NaN" \/ y.t = "NaN" THEN NaN
     ELSE IF x.v <= y.v THEN x ELSE y

\* obj.key on a value that is an object: undefined when the key is missing.
Get(obj, key) ==
  IF obj.t = "object" /\ key \in DOMAIN obj.f THEN obj.f[key] ELSE Undefined

\* Reading a property of null or undefined throws a TypeError.
Nullish(x) == x.t \in {"null", "undefined"}

(***************************************************************************)
(* Steps of the handler: it issues a fetch, returns a text, or throws.     *)
(***************************************************************************)
Fetch(req) == [k |-> "fetch", req |-> req]
Return(text) == [k |-> "return", text |-> text]
Throw(message) == [k |-> "throw", error |-> message]

\* The `エラー (${response.status}): ${...}` sentence.
GenericError(status, detail) == [msg |-> "generic_error", status |-> status, detail |-> detail]

\* response.text(): the body verbatim.
RawText(body) == [t |-> "raw", of |-> body]

\* response.ok
Ok(status) == status >= 200 /\ status <= 299

\* response.json(): the decoded value, or a SyntaxError.
JsonFails(body) == body.k = "text"

SyntaxError == "Unexpected token in JSON"
TypeErrorRead == "Cannot read properties"
FetchFailed == "fetch failed"
URIError == "URI malformed"

\* x === y
StrictEq(x, y) == x.t = y.t /\ x = y

\* args?.key : args may be undefined as a whole.
Arg(a, key) == IF Nullish(a) THEN Undefined ELSE Get(a, key)

\* A string holding a lone surrogate, on which encodeURIComponent throws.
LoneSurrogate == Str("\\uD800")

EncodeThrows(q) == q = LoneSurrogate
EncodeURIComponent(q) == [t |-> "uri", of |-> q]

(***************************************************************************)
(* The article list both list_articles and search_articles render.         *)
(***************************************************************************)
\* article.tags.join(", ") throws when the article or its tags are missing.
ItemThrows(article) == Nullish(article) \/ Nullish(Get(article, "tags"))

ArticleLine(article, index) ==
  [index |-> index,
   title |-> Get(article, "title"),
   minutes |-> Get(article, "reading_time_minutes"),
   url |-> Get(article, "url"),
   tags |-> Get(article, "tags"),
   id |-> Get(article, "id")]

ArticleLines(items) == [k \in 1..Len(items) |-> ArticleLine(items[k], k)]

(***************************************************************************)
(* list_articles                                                           *)
(***************************************************************************)
DefaultListLimit == 20
MaxListLimit == 50

ListLimit(a) == MathMin(Or(Arg(a, "limit"), Num(DefaultListLimit)), Num(MaxListLimit))

ListStart(cfg, a) ==
  Fetch([method |-> "GET", base |-> cfg.url, path |-> "/api/v1/articles",
         limit |-> ListLimit(a), auth |-> cfg.token])

\* Variant of ListError: the body is decoded and its message or error shown.
ListErrorExtract(status, body) ==
  IF body.k = "json" /\ Truthy(Or(Get(body.v, "message"), Get(body.v, "error")))
  THEN GenericError(status, Or(Get(body.v, "message"), Get(body.v, "error")))
  ELSE GenericError(status, RawText(body))

ListError(status, body) == GenericError(status, RawText(body))

ListResume(a, out) ==
  IF out.k = "netfail" THEN Throw(FetchFailed)
  ELSE IF ~Ok(out.status) THEN Return(ListError(out.status, out.body))
  ELSE IF JsonFails(out.body) THEN Throw(SyntaxError)
  ELSE IF Nullish(out.body.v) THEN Throw(TypeErrorRead)
  ELSE LET articles == Or(Get(out.body.v, "articles"), Arr(<<>>))
       IN IF Len(articles.items) = 0 THEN Return([msg |-> "no_unread"])
          ELSE IF \E k \in 1..Len(articles.items) : ItemThrows(articles.items[k])
               THEN Throw(TypeErrorRead)
          ELSE Return([msg |-> "unread_list", count |-> Len(articles.items),
                       items |-> ArticleLines(articles.items)])

(***************************************************************************)
(* search_articles                                                         *)
(***************************************************************************)
DefaultSearchLimit == 10
MaxSearchLimit == 30

SearchMode(a) == Or(Arg(a, "mode"), Str("semantic"))
SearchLimit(a) == MathMin(Or(Arg(a, "limit"), Num(DefaultSearchLimit)), Num(MaxSearchLimit))

\* Variant of SearchEndpoint: the ternary tests for "keyword" instead.
SearchEndpointKeywordOnly(mode) ==
  IF StrictEq(mode, Str("keyword")) THEN "/api/v1/articles/search"
  ELSE "/api/v1/articles/semantic-search"

SearchEndpoint(mode) ==
  IF StrictEq(mode, Str("semantic")) THEN "/api/v1/articles/semantic-search"
  ELSE "/api/v1/articles/search"

\* Variant of SearchInvalid: tests `query === undefined` instead of `!query`.
SearchInvalidUndefinedOnly(a) == Arg(a, "query") = Undefined

\* `!query`
SearchInvalid(a) == ~Truthy(Arg(a, "query"))

SearchStart(cfg, a) ==
  IF SearchInvalid(a) THEN Return([msg |-> "query_required"])
  ELSE IF EncodeThrows(Arg(a, "query")) THEN Throw(URIError)
  ELSE Fetch([method |-> "GET", base |-> cfg.url, path |-> SearchEndpoint(SearchMode(a)),
              q |-> EncodeURIComponent(Arg(a, "query")), limit |-> SearchLimit(a),
              auth |-> cfg.token])

\* Variant of SemanticUnavailable: the mode is not looked at.
SemanticUnavailableAnyMode(status, mode) == status = 503

\* `response.status === 503 && mode === "semantic"`
SemanticUnavailable(status, mode) == status = 503 /\ StrictEq(mode, Str("semantic"))

SearchError(status, mode, body) ==
  IF SemanticUnavailable(status, mode) THEN [msg |-> "semantic_unavailable"]
  ELSE GenericError(status, RawText(body))

SearchResume(a, out) ==
  LET query == Arg(a, "query")
      mode == SearchMode(a)
      semantic == StrictEq(mode, Str("semantic"))
  IN IF out.k = "netfail" THEN Throw(FetchFailed)
     ELSE IF ~Ok(out.status) THEN Return(SearchError(out.status, mode, out.body))
     ELSE IF JsonFails(out.body) THEN Throw(SyntaxError)
     ELSE IF Nullish(out.body.v) THEN Throw(TypeErrorRead)
     ELSE LET searchResults == Or(Get(out.body.v, "articles"), Arr(<<>>))
          IN IF Len(searchResults.items) = 0
             THEN Return([msg |-> IF semantic THEN "no_related" ELSE "no_match", query |-> query])
             ELSE IF \E k \in 1..Len(searchResults.items) : ItemThrows(searchResults.items[k])
                  THEN Throw(TypeErrorRead)
             ELSE Return([msg |-> "search_results",
                          modeLabel |-> IF semantic THEN "semantic" ELSE "keyword",
                          query |-> query, count |-> Len(searchResults.items),
                          items |-> ArticleLines(searchResults.items)])

(***************************************************************************)
(* get_article                                                             *)
(***************************************************************************)
GetInvalid(a) == ~Truthy(Arg(a, "article_id"))

GetStart(cfg, a) ==
  IF GetInvalid(a) THEN Return([msg |-> "article_id_required"])
  ELSE Fetch([method |-> "GET", base |-> cfg.url, path |-> "/api/v1/articles/{id}",
              id |-> Arg(a, "article_id"), auth |-> cfg.token])

GetError(status, articleId, body) ==
  IF status = 404 THEN [msg |-> "not_found", id |-> articleId]
  ELSE IF status = 403 THEN [msg |-> "forbidden"]
  ELSE GenericError(status, RawText(body))

\* The nested conditional that turns article.status into its label.
StatusLabel(status) ==
  IF StrictEq(status, Str("read")) THEN "read"
  ELSE IF StrictEq(status, Str("unread")) THEN "unread"
  ELSE IF StrictEq(status, Str("deferred")) THEN "deferred"
  ELSE "unknown"

\* new Date(created_at).toLocaleDateString("ja-JP"), or the word for unknown.
SavedDate(createdAt) ==
  IF Truthy(createdAt) THEN [t |-> "localeDate", of |-> createdAt] ELSE Str("unknown")

EventLine(e) ==
  [action |-> Get(e, "action"), at |-> [t |-> "localeString", of |-> Get(e, "created_at")]]

GetResume(a, out) ==
  IF out.k = "netfail" THEN Throw(FetchFailed)
  ELSE IF ~Ok(out.status) THEN Return(GetError(out.status, Arg(a, "article_id"), out.body))
  ELSE IF JsonFails(out.body) THEN Throw(SyntaxError)
  ELSE IF Nullish(out.body.v) THEN Throw(TypeErrorRead)
  ELSE LET article == Get(out.body.v, "article")
           events == Or(Get(out.body.v, "events"), Arr(<<>>))
       IN IF ItemThrows(article) THEN Throw(TypeErrorRead)
          ELSE Return([msg |-> "article_detail",
                       title |-> Get(article, "title"),
                       url |-> Get(article, "url"),
                       status |-> StatusLabel(Get(article, "status")),
                       minutes |-> Get(article, "reading_time_minutes"),
                       tags |-> Get(article, "tags"),
                       contentType |-> Get(article, "content_type"),
                       saved |-> SavedDate(Get(article, "created_at")),
                       summary |-> Get(article, "summary"),
                       id |-> Get(article, "id"),
                       events |-> [k \in 1..Len(events.items) |-> EventLine(events.items[k])]])

(***************************************************************************)
(* update_article_status                                                   *)
(***************************************************************************)
\* `!articleId || !action`
UpdateMissing(a) == ~Truthy(Arg(a, "article_id")) \/ ~Truthy(Arg(a, "action"))

\* `action !== "read" && action !== "delete"`
UpdateBadAction(action) == ~StrictEq(action, Str("read")) /\ ~StrictEq(action, Str("delete"))

\* Variant of UpdateRequest: the method ternary is inverted.
UpdateRequestSwapped(cfg, articleId, action) ==
  [method |-> IF StrictEq(action, Str("read")) THEN "DELETE" ELSE "POST",
   base |-> cfg.url,
   path |-> IF StrictEq(action, Str("read")) THEN "/api/v1/articles/{id}/read"
            ELSE "/api/v1/articles/{id}",
   id |-> articleId, auth |-> cfg.token]

UpdateRequest(cfg, articleId, action) ==
  [method |-> IF StrictEq(action, Str("read")) THEN "POST" ELSE "DELETE",
   base |-> cfg.url,
   path |-> IF StrictEq(action, Str("read")) THEN "/api/v1/articles/{id}/read"
            ELSE "/api/v1/articles/{id}",
   id |-> articleId, auth |-> cfg.token]

UpdateStart(cfg, a) ==
  IF UpdateMissing(a) THEN Return([msg |-> "id_and_action_required"])
  ELSE IF UpdateBadAction(Arg(a, "action")) THEN Return([msg |-> "invalid_action"])
  ELSE Fetch(UpdateRequest(cfg, Arg(a, "article_id"), Arg(a, "action")))

UpdateError(status, articleId, body) ==
  IF status = 404 THEN [msg |-> "not_found", id |-> articleId]
  ELSE GenericError(status, RawText(body))

UpdateConfirmation(action, articleId) ==
  [msg |-> IF StrictEq(action, Str("read")) THEN "marked_read" ELSE "deleted", id |-> articleId]

UpdateResume(a, out) ==
  IF out.k = "netfail" THEN Throw(FetchFailed)
  ELSE IF ~Ok(out.status) THEN Return(UpdateError(out.status, Arg(a, "article_id"), out.body))
  ELSE Return(UpdateConfirmation(Arg(a, "action"), Arg(a, "article_id")))

(***************************************************************************)
(* save_article                                                            *)
(***************************************************************************)
SaveInvalid(a) == ~Truthy(Arg(a, "url"))

\* requestBody: url, and title and markdown only when truthy.
RequestBody(a) ==
  LET b0 == [url |-> Arg(a, "url")]
      b1 == IF Truthy(Arg(a, "title")) THEN b0 @@ [title |-> Arg(a, "title")] ELSE b0
  IN IF Truthy(Arg(a, "markdown")) THEN b1 @@ [markdown |-> Arg(a, "markdown")] ELSE b1

SaveStart(cfg, a) ==
  IF SaveInvalid(a) THEN Return([msg |-> "url_required"])
  ELSE Fetch([method |-> "POST", base |-> cfg.url, path |-> "/api/v1/articles",
              contentType |-> "application/json",
              body |-> [t |-> "JSON.stringify", of |-> RequestBody(a)],
              auth |-> cfg.token])

\* response.json().catch(() => ({ error: "unknown" }))
ErrorData(body) == IF JsonFails(body) THEN Obj([error |-> Str("unknown")]) ELSE body.v

\* The four error codes a status 400 maps to a sentence of its own.
SaveCodes == {"unread-limit", "limit-reached", "already-read", "invalid-content"}

CodeMessage(code) ==
  CASE code = "unread-limit" -> "unread_limit"
    [] code = "limit-reached" -> "limit_reached"
    [] code = "already-read" -> "already_read"
    [] code = "invalid-content" -> "invalid_content"

\* Variant of SaveError: the error code is mapped whatever the status.
SaveErrorAnyStatus(status, errorData) ==
  LET code == Get(errorData, "error")
  IN IF code.t = "string" /\ code.v \in SaveCodes
     THEN [msg |-> CodeMessage(code.v)]
     ELSE GenericError(status, Or(Or(Get(errorData, "message"), code), Str("save_failed")))

\* The text of a non-2xx answer whose body decoded to a non-null value.
SaveError(status, errorData) ==
  LET code == Get(errorData, "error")
  IN IF status = 400 /\ code.t = "string" /\ code.v \in SaveCodes
     THEN [msg |-> CodeMessage(code.v)]
     ELSE GenericError(status, Or(Or(Get(errorData, "message"), code), Str("save_failed")))

\* The sentence the backend sends for an article saved before.
AlreadySaved == Str("already saved sentence")

SaveMessage(data) ==
  IF Truthy(Get(data, "restored")) THEN "re_registered"
  ELSE IF StrictEq(Get(data, "message"), AlreadySaved) THEN "already_saved"
  ELSE "saved"

SaveResume(a, out) ==
  IF out.k = "netfail" THEN Throw(FetchFailed)
  ELSE IF ~Ok(out.status)
       THEN IF Nullish(ErrorData(out.body)) THEN Throw(TypeErrorRead)
            ELSE Return(SaveError(out.status, ErrorData(out.body)))
  ELSE IF JsonFails(out.body) THEN Throw(SyntaxError)
  ELSE IF Nullish(out.body.v) THEN Throw(TypeErrorRead)
  ELSE Return([msg |-> SaveMessage(out.body.v), url |-> Arg(a, "url"),
               articleId |-> Get(out.body.v, "articleId")])

(***************************************************************************)
(* The handler: switch (name), inside try / catch.                         *)
(***************************************************************************)
\* The part of the handler that runs before its first await.
Start(cfg, nm, a) ==
  CASE nm = "list_articles" -> ListStart(cfg, a)
    [] nm = "search_articles" -> SearchStart(cfg, a)
    [] nm = "get_article" -> GetStart(cfg, a)
    [] nm = "update_article_status" -> UpdateStart(cfg, a)
    [] nm = "save_article" -> SaveStart(cfg, a)
    [] OTHER -> Return([msg |-> "unknown_tool", name |-> nm])

\* Variant of Resume: a failed fetch is issued again.
ResumeRetry(cfg, nm, a, out) ==
  IF out.k = "netfail" \/ ~Ok(out.status) THEN Start(cfg, nm, a)
  ELSE CASE nm = "list_articles" -> ListResume(a, out)
         [] nm = "search_articles" -> SearchResume(a, out)
         [] nm = "get_article" -> GetResume(a, out)
         [] nm = "update_article_status" -> UpdateResume(a, out)
         [] nm = "save_article" -> SaveResume(a, out)

\* The part that runs once the fetch has settled with outcome out.
Resume(cfg, nm, a, out) ==
  CASE nm = "list_articles" -> ListResume(a, out)
    [] nm = "search_articles" -> SearchResume(a, out)
    [] nm = "get_article" -> GetResume(a, out)
    [] nm = "update_article_status" -> UpdateResume(a, out)
    [] nm = "save_article" -> SaveResume(a, out)

\* Variant of TryCatch: the handler without its catch block.
TryCatchRethrow(step) == step

\* catch (error): the exception becomes a text of its own.
TryCatch(step) ==
  IF step.k = "throw" THEN Return([msg |-> "exception", detail |-> step.error])
  ELSE step

\* The value the handler returns: { content: [{ type: "text", text }] }.
ToolResult(text) == [content |-> <<[type |-> "text", text |-> text]>>]

(***************************************************************************)
(* Inputs: startup environment, argument bags, backend outcomes.           *)
(***************************************************************************)
DefaultApiUrl == Str("https://curaq.app")

\* process.env.CURAQ_API_URL || "https://curaq.app"
ApiUrl(env) == Or(env, DefaultApiUrl)

EnvUrls == {Undefined, Str(""), Str("http://localhost:3000")}
\* The process exits at startup unless the token is truthy.
EnvTokens == {t \in {Undefined, Str(""), Str("token-A")} : Truthy(t)}

LimitValues ==
  {Undefined, Null, NaN, Num(0), Num(-5), Num(1), Num(10), Num(31), Num(50), Num(51),
   Num(999), Str("abc"), Str("7")}

ListArgs == {Undefined} \cup {Obj([limit |-> l]) : l \in LimitValues}

SearchArgs ==
  {Undefined} \cup
  {Obj([query |-> q, mode |-> m, limit |-> l]) :
     q \in {Undefined, Null, Str(""), Str("react"), LoneSurrogate},
     m \in {Undefined, Str(""), Str("semantic"), Str("keyword"), Str("fuzzy"), Str("Semantic")},
     l \in {Undefined, Num(5), Num(999), Num(-5)}}

GetArgs == {Undefined} \cup {Obj([article_id |-> x]) : x \in {Undefined, Null, Str(""), Str("a1"), Str("a2")}}

UpdateArgs ==
  {Undefined} \cup
  {Obj([article_id |-> x, action |-> y]) :
     x \in {Undefined, Null, Str(""), Str("a1")},
     y \in {Undefined, Null, Str(""), Str("read"), Str("delete"), Str("archive"), Str("READ")}}

SaveArgs ==
  {Undefined} \cup
  {Obj([url |-> u, title |-> x, markdown |-> y]) :
     u \in {Undefined, Null, Str(""), Str("https://example.com/article")},
     x \in {Undefined, Str(""), Str("T")},
     y \in {Undefined, Str(""), Str("# md")}}

KnownTools == {"list_articles", "search_articles", "get_article", "update_article_status",
               "save_article"}
UnknownTools == {"", "delete_everything"}

Statuses == {200, 201, 400, 403, 404, 500, 503}

Article1 ==
  Obj([id |-> Str("a1"), url |-> Str("https://example.com/1"), title |-> Str("One"),
       summary |-> Str("s1"), tags |-> Arr(<<Str("ts"), Str("mcp")>>),
       reading_time_minutes |-> Num(3), content_type |-> Str("article"),
       status |-> Str("unread"), created_at |-> Str("2025-01-01T00:00:00Z")])
Article2 ==
  Obj([id |-> Str("a2"), url |-> Str("https://example.com/2"), title |-> Str("Two"),
       summary |-> Str("s2"), tags |-> Arr(<<>>),
       reading_time_minutes |-> Num(7), content_type |-> Str("video"),
       status |-> Str("archived")])
\* An article the backend sent without tags.
Tagless == Obj([id |-> Str("a3"), url |-> Str("https://example.com/3"), title |-> Str("Three")])

RECURSIVE SeqsUpTo(_, _)
SeqsUpTo(S, n) ==
  IF n = 0 THEN {<<>>}
  ELSE LET shorter == SeqsUpTo(S, n - 1)
       IN shorter \cup {Append(q, x) : q \in {r \in shorter : Len(r) = n - 1}, x \in S}

ErrorValues ==
  {Obj(<<>>), Obj([message |-> Str("backend message")])} \cup
  {Obj([error |-> Str(c)]) : c \in SaveCodes \cup {"xyz"}} \cup
  {Obj([error |-> Str(c), message |-> m]) :
     c \in SaveCodes \cup {"xyz"}, m \in {Str(""), Str("backend message")}}

ListValues == {Obj([articles |-> Arr(q)]) : q \in SeqsUpTo({Article1, Tagless}, MaxArticles)}

DetailValues ==
  {Obj([article |-> x]) : x \in {Article1, Article2, Tagless}} \cup
  {Obj([article |-> x,
        events |-> Arr(<<Obj([action |-> Str("read"), created_at |-> Str("2025-01-02")])>>)]) :
     x \in {Article1, Article2}}

SavedValues ==
  {Obj([success |-> Bool(TRUE), message |-> m, articleId |-> Str("a9")]) :
     m \in {AlreadySaved, Str("ok")}} \cup
  {Obj([success |-> Bool(TRUE), message |-> m, articleId |-> Str("a9"), restored |-> Bool(TRUE)]) :
     m \in {AlreadySaved, Str("ok")}}

\* A body is text that is no JSON, or JSON of some value.
TextBody == [k |-> "text"]
JsonBody(v) == [k |-> "json", v |-> v]

Bodies ==
  {TextBody, JsonBody(Null)} \cup
  {JsonBody(v) : v \in ErrorValues \cup ListValues \cup DetailValues \cup SavedValues}

NetworkFailure == [k |-> "netfail"]
Response(status, body) == [k |-> "response", status |-> status, body |-> body]

Outcomes == {NetworkFailure} \cup {Response(st, b) : st \in Statuses, b \in Bodies}

(***************************************************************************)
(* State                                                                   *)
(***************************************************************************)
\* config:   CURAQ_API_URL and CURAQ_MCP_TOKEN, read once at startup
\* pc:       per slot, "idle", "awaiting" (at await fetch), "returned" or "thrown"
\* name:     per slot, request.params.name
\* args:     per slot, request.params.arguments
\* request:  per slot, the last HTTP request the invocation issued
\* response: per slot, the outcome of that request
\* result:   per slot, what the handler returned
\* calls:    per slot, the fetches this invocation has issued
VARIABLES config, pc, name, args, request, response, result, calls

vars == <<config, pc, name, args, request, response, result, calls>>

Init ==
  /\ config \in {[url |-> ApiUrl(e), token |-> t] : e \in EnvUrls, t \in EnvTokens}
  /\ pc = [i \in Slots |-> "idle"]
  /\ name = [i \in Slots |-> ""]
  /\ args = [i \in Slots |-> None]
  /\ request = [i \in Slots |-> None]
  /\ response = [i \in Slots |-> None]
  /\ result = [i \in Slots |-> None]
  /\ calls = [i \in Slots |-> 0]

\* What a step of the handler does to slot i.
Apply(i, step) ==
  /\ pc' = [pc EXCEPT ![i] = CASE step.k = "fetch" -> "awaiting"
                               [] step.k = "return" -> "returned"
                               [] step.k = "throw" -> "thrown"]
  /\ request' = IF step.k = "fetch" THEN [request EXCEPT ![i] = step.req] ELSE request
  /\ calls' = IF step.k = "fetch" THEN [calls EXCEPT ![i] = @ + 1] ELSE calls
  /\ result' = IF step.k = "return" THEN [result EXCEPT ![i] = ToolResult(step.text)]
               ELSE result

\* The transport hands the handler a CallTool request.
CallTool(i, nm, a) ==
  /\ pc[i] = "idle"
  /\ name' = [name EXCEPT ![i] = nm]
  /\ args' = [args EXCEPT ![i] = a]
  /\ Apply(i, TryCatch(Start(config, nm, a)))
  /\ UNCHANGED <<config, response>>

ListArticles(i) == \E a \in ListArgs : CallTool(i, "list_articles", a)
SearchArticles(i) == \E a \in SearchArgs : CallTool(i, "search_articles", a)
GetArticle(i) == \E a \in GetArgs : CallTool(i, "get_article", a)
UpdateArticleStatus(i) == \E a \in UpdateArgs : CallTool(i, "update_article_status", a)
SaveArticle(i) == \E a \in SaveArgs : CallTool(i, "save_article", a)
UnknownTool(i) == \E nm \in UnknownTools : CallTool(i, nm, Undefined)

\* Variant of Deliver: name and args are kept in variables of the module, which
\* any invocation in flight may have overwritten by the time the fetch settles.
DeliverShared(i, out) ==
  /\ response' = [response EXCEPT ![i] = out]
  /\ \E j \in Slots :
       /\ pc[j] = "awaiting"
       /\ Apply(i, TryCatch(Resume(config, name[j], args[j], out)))

\* The awaited fetch of slot i settles with out: the closure of that
\* invocation resumes with its own name and args.
Deliver(i, out) ==
  /\ response' = [response EXCEPT ![i] = out]
  /\ Apply(i, TryCatch(Resume(config, name[i], args[i], out)))

\* The fetch settles and the handler runs to its end.
FetchSettles(i) ==
  /\ pc[i] = "awaiting"
  /\ \E out \in Outcomes : Deliver(i, out)
  /\ UNCHANGED <<config, name, args>>

\* The transport has sent the result; the slot is free again.
Release(i) ==
  /\ pc[i] \in {"returned", "thrown"}
  /\ pc' = [pc EXCEPT ![i] = "idle"]
  /\ name' = [name EXCEPT ![i] = ""]
  /\ args' = [args EXCEPT ![i] = None]
  /\ request' = [request EXCEPT ![i] = None]
  /\ response' = [response EXCEPT ![i] = None]
  /\ result' = [result EXCEPT ![i] = None]
  /\ calls' = [calls EXCEPT ![i] = 0]
  /\ UNCHANGED config

\* The transport delivers the next invocation when no other is in flight.
OneAtATime(i) == \A j \in Slots \ {i} : pc[j] = "idle"

Next ==
  \E i \in Slots :
    \/ OneAtATime(i) /\ ListArticles(i)
    \/ OneAtATime(i) /\ SearchArticles(i)
    \/ OneAtATime(i) /\ GetArticle(i)
    \/ OneAtATime(i) /\ UpdateArticleStatus(i)
    \/ OneAtATime(i) /\ SaveArticle(i)
    \/ OneAtATime(i) /\ UnknownTool(i)
    \/ FetchSettles(i)
    \/ Release(i)

Spec == Init /\ [][Next]_vars

(***************************************************************************)
(* Several invocations in flight: the transport hands over a request while *)
(* others are suspended at their fetch, and the fetches settle in any      *)
(* order.  The inputs are a selection of those above.                      *)
(***************************************************************************)
Invocation(nm, a) == [nm |-> nm, a |-> a]

ConcurrentCalls ==
  {Invocation("list_articles", Undefined),
   Invocation("search_articles", Obj([query |-> Str("react")])),
   Invocation("search_articles", Obj([query |-> Str("react"), mode |-> Str("keyword")])),
   Invocation("search_articles", Obj([query |-> Str("")])),
   Invocation("get_article", Obj([article_id |-> Str("a1")])),
   Invocation("get_article", Obj([article_id |-> Str("a2")])),
   Invocation("update_article_status", Obj([article_id |-> Str("a1"), action |-> Str("read")])),
   Invocation("save_article", Obj([url |-> Str("https://example.com/article")])),
   Invocation("delete_everything", Undefined)}

ConcurrentOutcomes ==
  {NetworkFailure,
   Response(200, JsonBody(Obj([articles |-> Arr(<<Article1>>)]))),
   Response(200, JsonBody(Obj([article |-> Article1]))),
   Response(400, JsonBody(Obj([error |-> Str("already-read")]))),
   Response(404, TextBody),
   Response(503, TextBody)}

ConcurrentCall(i) == \E c \in ConcurrentCalls : CallTool(i, c.nm, c.a)

ConcurrentSettles(i) ==
  /\ pc[i] = "awaiting"
  /\ \E out \in ConcurrentOutcomes : Deliver(i, out)
  /\ UNCHANGED <<config, name, args>>

NextConcurrent ==
  \E i \in Slots :
    \/ ConcurrentCall(i)
    \/ ConcurrentSettles(i)
    \/ Release(i)

SpecConcurrent == Init /\ [][NextConcurrent]_vars

TypeOK ==
  /\ \A i \in Slots : pc[i] \in {"idle", "awaiting", "returned", "thrown"}
  /\ \A i \in Slots : calls[i] \in 0..1
  /\ \A i \in Slots : name[i] \in KnownTools \cup UnknownTools \cup {""}

(***************************************************************************)
(* Properties                                                              *)
(***************************************************************************)
\* The text of the one block slot i returned.
Text(i) == result[i].content[1].text

\* Slot i has had its answer from the backend and has returned.
Answered(i) == pc[i] = "returned" /\ calls[i] = 1 /\ response[i].k = "response"

\* An argument that is missing or empty.
Missing(v) == v \in {Undefined, Null, Str("")}

\* Slot i returned the validation message m without calling the backend.
Rejected(i, m) ==
  /\ pc[i] = "returned"
  /\ calls[i] = 0
  /\ request[i] = None
  /\ response[i] = None
  /\ Text(i) = [msg |-> m]

SemanticPath == "/api/v1/articles/semantic-search"
KeywordPath == "/api/v1/articles/search"

\* The modes under which a search is a semantic search.
SemanticModes == {Undefined, Str(""), Str("semantic")}

\* C1: whatever the tool name, the arguments and the backend's outcome, an
\* invocation that has ended has returned a result whose content is exactly
\* one block of type "text"; no invocation ends by throwing.
C1_SingleTextBlock ==
  \A i \in Slots :
    /\ pc[i] # "thrown"
    /\ pc[i] = "returned" =>
         /\ DOMAIN result[i] = {"content"}
         /\ Len(result[i].content) = 1
         /\ result[i].content[1].type = "text"

\* C1 witness: a network failure was caught and returned as a text block.
C1_Witness ==
  \E i \in Slots :
    /\ pc[i] = "returned"
    /\ response[i] = NetworkFailure
    /\ Text(i).msg = "exception"

\* C2: an invocation of search_articles, get_article, update_article_status
\* or save_article in which a required argument is missing or empty has
\* returned that tool's validation message and has issued no HTTP call.
C2_ValidationNoCall ==
  \A i \in Slots :
    pc[i] # "idle" =>
      /\ (name[i] = "search_articles" /\ Missing(Arg(args[i], "query")))
           => Rejected(i, "query_required")
      /\ (name[i] = "get_article" /\ Missing(Arg(args[i], "article_id")))
           => Rejected(i, "article_id_required")
      /\ (name[i] = "update_article_status"
            /\ (Missing(Arg(args[i], "article_id")) \/ Missing(Arg(args[i], "action"))))
           => Rejected(i, "id_and_action_required")
      /\ (name[i] = "save_article" /\ Missing(Arg(args[i], "url")))
           => Rejected(i, "url_required")

\* C2 witness: a search with an empty query was turned away without a call.
C2_Witness ==
  \E i \in Slots :
    /\ name[i] = "search_articles"
    /\ Arg(args[i], "query") = Str("")
    /\ Rejected(i, "query_required")

\* C3, as claimed: the limit list_articles sends is 20 when no limit is given,
\* 50 when the limit is above 50, 20 when it is negative or not a number, and
\* so always an integer in 1..50.
C3_ListLimitClaim ==
  \A i \in Slots :
    (name[i] = "list_articles" /\ request[i] # None) =>
      LET l == Arg(args[i], "limit")
          sent == request[i].limit
      IN /\ sent.t = "number"
         /\ sent.v \in 1..50
         /\ l = Undefined => sent = Num(20)
         /\ (l.t = "number" /\ l.v > 50) => sent = Num(50)
         /\ (l.t = "number" /\ l.v < 0) => sent = Num(20)
         /\ l.t \notin {"number", "undefined"} => sent = Num(20)

\* C4, as claimed: a search request goes to the keyword endpoint when mode is
\* exactly "keyword" and to the semantic endpoint for every other mode.
C4_OriginalEndpoint ==
  \A i \in Slots :
    (name[i] = "search_articles" /\ request[i] # None) =>
      request[i].path = IF Arg(args[i], "mode") = Str("keyword") THEN KeywordPath
                        ELSE SemanticPath

\* C4, amended: a search request goes to the semantic endpoint when mode is
\* omitted, empty or exactly "semantic", and to the keyword endpoint for every
\* other mode string, "keyword" included.
C4_Endpoint ==
  \A i \in Slots :
    (name[i] = "search_articles" /\ request[i] # None) =>
      request[i].path = IF Arg(args[i], "mode") \in SemanticModes THEN SemanticPath
                        ELSE KeywordPath

\* C4 witness: a search with a query and an unlisted mode was sent to the
\* keyword endpoint.
C4_Witness ==
  \E i \in Slots :
    /\ name[i] = "search_articles"
    /\ Arg(args[i], "query") = Str("react")
    /\ Arg(args[i], "mode") = Str("fuzzy")
    /\ calls[i] = 1
    /\ request[i].path = KeywordPath

\* C5: update_article_status with an article_id: an action other than "read"
\* or "delete" returns a validation message with no call; "read" issues exactly
\* POST /api/v1/articles/{id}/read and "delete" exactly DELETE
\* /api/v1/articles/{id}; on a 2xx answer the confirmation is the one of the
\* action and carries the id.
C5_UpdateStatus ==
  \A i \in Slots :
    (name[i] = "update_article_status" /\ pc[i] # "idle"
       /\ ~Missing(Arg(args[i], "article_id"))) =>
      LET id == Arg(args[i], "article_id")
          action == Arg(args[i], "action")
      IN /\ action \notin {Str("read"), Str("delete")} =>
              /\ pc[i] = "returned"
              /\ calls[i] = 0
              /\ request[i] = None
              /\ Text(i) \in {[msg |-> "invalid_action"], [msg |-> "id_and_action_required"]}
         /\ action = Str("read") =>
              /\ calls[i] = 1
              /\ request[i] = [method |-> "POST", base |-> config.url,
                               path |-> "/api/v1/articles/{id}/read", id |-> id,
                               auth |-> config.token]
         /\ action = Str("delete") =>
              /\ calls[i] = 1
              /\ request[i] = [method |-> "DELETE", base |-> config.url,
                               path |-> "/api/v1/articles/{id}", id |-> id,
                               auth |-> config.token]
         /\ (action \in {Str("read"), Str("delete")} /\ Answered(i)
               /\ response[i].status \in 200..299) =>
              Text(i) = [msg |-> IF action = Str("read") THEN "marked_read" ELSE "deleted",
                         id |-> id]

\* C5 witness: an article was marked read and the confirmation returned.
C5_Witness ==
  \E i \in Slots :
    /\ name[i] = "update_article_status"
    /\ Arg(args[i], "action") = Str("read")
    /\ Answered(i)
    /\ response[i].status = 200
    /\ request[i].method = "POST"
    /\ Text(i).msg = "marked_read"

\* C6: a 503 answer to a search made in semantic mode gives the fixed
\* fallback suggestion, which carries no status; a 503 answer under mode
\* "keyword" gives the generic error text of the status and the body.
C6_Search503 ==
  \A i \in Slots :
    (name[i] = "search_articles" /\ Answered(i) /\ response[i].status = 503) =>
      /\ Arg(args[i], "mode") \in SemanticModes =>
           Text(i) = [msg |-> "semantic_unavailable"]
      /\ Arg(args[i], "mode") = Str("keyword") =>
           Text(i) = [msg |-> "generic_error", status |-> 503,
                      detail |-> RawText(response[i].body)]

\* C6 witness: a semantic search answered 503 returned the suggestion.
C6_Witness ==
  \E i \in Slots :
    /\ name[i] = "search_articles"
    /\ Arg(args[i], "mode") = Undefined
    /\ Answered(i)
    /\ response[i].status = 503
    /\ Text(i).msg = "semantic_unavailable"

\* The error code of a body: its error field when it decodes to an object.
BodyField(body, key) == IF body.k = "json" THEN Get(body.v, key) ELSE Undefined

NamedCase(nm, a, status, body) ==
  \/ nm = "get_article" /\ status \in {403, 404}
  \/ nm = "update_article_status" /\ status = 404
  \/ nm = "search_articles" /\ status = 503 /\ Arg(a, "mode") \in SemanticModes
  \/ nm = "save_article" /\ status = 400
       /\ BodyField(body, "error") \in {Str(c) : c \in SaveCodes}

\* Slot i returned after a non-2xx answer that is none of its tool's named cases.
OtherFailure(i) ==
  /\ Answered(i)
  /\ response[i].status \notin 200..299
  /\ ~NamedCase(name[i], args[i], response[i].status, response[i].body)

\* The detail the one generic formatter of the claim would show.
ClaimedDetail(body) ==
  IF Truthy(BodyField(body, "message")) THEN BodyField(body, "message")
  ELSE IF Truthy(BodyField(body, "error")) THEN BodyField(body, "error")
  ELSE RawText(body)

ReadmeListDefault == 10
ReadmeListMax == 30

\* C9, as documented in the README: list_articles asks for 10 articles when
\* no limit is given and never for more than 30.
C9_ReadmeListLimit ==
  \A i \in Slots :
    (name[i] = "list_articles" /\ request[i] # None) =>
      LET sent == request[i].limit
      IN /\ sent.t = "number" => sent.v <= ReadmeListMax
         /\ Arg(args[i], "limit") = Undefined => sent = Num(ReadmeListDefault)

\* C10: an invocation issues at most one HTTP call, and when the outcome of
\* that call arrives, failures included, the invocation returns in the same
\* step without issuing another.
C10_AtMostOneCall ==
  [][\A i \in Slots :
       /\ calls'[i] <= 1
       /\ (pc[i] = "awaiting" /\ response'[i] # response[i]) =>
            /\ pc'[i] = "returned"
            /\ calls'[i] = calls[i]
            /\ request'[i] = request[i]]_vars

\* C10 witness: a call answered 500 was rendered once, after a single call.
C10_Witness ==
  \E i \in Slots :
    /\ Answered(i)
    /\ response[i].status = 500
    /\ Text(i).msg = "generic_error"

\* What the handler returns when it runs alone on a name, an argument bag and
\* the outcome of its fetch, under the startup configuration.
AloneRequest(cfg, nm, a) == Start(cfg, nm, a).req
AloneResult(cfg, nm, a, out) == ToolResult(TryCatch(Resume(cfg, nm, a, out)).text)

\* Nothing of slot i changes in the step.
Untouched(i) ==
  /\ name'[i] = name[i]
  /\ args'[i] = args[i]
  /\ request'[i] = request[i]
  /\ response'[i] = response[i]
  /\ result'[i] = result[i]
  /\ calls'[i] = calls[i]

\* C11: with several invocations in flight and their responses arriving in
\* any order, the configuration never changes, a step of one invocation
\* leaves every other invocation as it was, and the request an invocation
\* has sent and the result it has returned are those the handler gives on
\* that invocation's own name, arguments and response alone.
C11_OwnInputsOnly ==
  [][/\ config' = config
     /\ \A i \in Slots :
          /\ pc'[i] = pc[i] => Untouched(i)
          /\ calls'[i] = 1 => request'[i] = AloneRequest(config, name'[i], args'[i])
          /\ (pc'[i] = "returned" /\ calls'[i] = 1) =>
               result'[i] = AloneResult(config, name'[i], args'[i], response'[i])]_vars

\* C11 witness: while one invocation was still waiting for its fetch, another,
\* of a different tool, had its answer and returned the text of its own
\* request (the not-found sentence with its own article id).
C11_Witness ==
  \E i, j \in Slots :
    /\ i # j
    /\ pc[j] = "awaiting"
    /\ name[j] = "search_articles"
    /\ name[i] = "get_article"
    /\ Answered(i)
    /\ response[i].status = 404
    /\ Text(i) = [msg |-> "not_found", id |-> Arg(args[i], "article_id")]

====
